---- MODULE Spec2Model ----
(***************************************************************************)
(* Model of src/app.py: the APIProxyHandler request handler (do_GET,       *)
(* handle_api_request, do_OPTIONS), the library calls it makes (urlopen,   *)
(* send_response / send_header / end_headers / send_error, the inherited   *)
(* static-file do_GET / do_HEAD) and main().                                *)
(*                                                                         *)
(* Text is a sequence of atoms (strings): a literal of the source is one   *)
(* atom, a value that is inspected character by character (the token, a    *)
(* request path, a decimal number) is one atom per character or segment.   *)
(***************************************************************************)
EXTENDS Integers, Sequences, FiniteSets, TLC

\* Number of connections the accept loop takes in one run of the model.
MaxRequests == 2

----------------------------------------------------------------------------
(* Text helpers *)

RECURSIVE Dec(_)
\* str(n) / "%d" % n for n >= 0: the decimal digits of n, one atom each.
Dec(n) ==
  LET digit(d) == CASE d = 0 -> "0" [] d = 1 -> "1" [] d = 2 -> "2" [] d = 3 -> "3"
                    [] d = 4 -> "4" [] d = 5 -> "5" [] d = 6 -> "6" [] d = 7 -> "7"
                    [] d = 8 -> "8" [] OTHER -> "9"
  IN IF n < 10 THEN <<digit(n)>> ELSE Dec(n \div 10) \o <<digit(n % 10)>>

\* s occurs in t as a contiguous run of atoms.
Contains(t, s) ==
  \E i \in 0..(Len(t) - Len(s)) : \A j \in 1..Len(s) : t[i + j] = s[j]

\* p is an initial part of t.
IsPrefix(p, t) ==
  Len(p) <= Len(t) /\ \A j \in 1..Len(p) : t[j] = p[j]

RECURSIVE MapAtoms(_, _)
\* Replace every atom a of t by the text f[a] when a is in the domain of f.
MapAtoms(f, t) ==
  IF t = <<>> THEN <<>>
  ELSE (IF Head(t) \in DOMAIN f THEN f[Head(t)] ELSE <<Head(t)>>) \o MapAtoms(f, Tail(t))

\* html.escape(message, quote=False) as send_error applies it to the body.
HtmlEscape(t) ==
  MapAtoms([a \in {"&", "<", ">"} |->
              CASE a = "&" -> <<"&amp;">> [] a = "<" -> <<"&lt;">> [] OTHER -> <<"&gt;">>], t)

\* The escaping repr() applies inside a bytes literal: a line feed becomes
\* backslash n, a backslash is doubled.
EscapeBytes(t) ==
  MapAtoms([a \in {"\n", "\\"} |->
              IF a = "\n" THEN <<"\\", "n">> ELSE <<"\\", "\\">>], t)

\* repr() of a bytes value: b'...' around the escaped characters.
ReprBytes(t) == <<"b'">> \o EscapeBytes(t) \o <<"'">>

----------------------------------------------------------------------------
(* Configuration and fixed texts of the source *)

HTML_FILE == <<"emergency-signin.html">>

API_PATH == <<"/", "api", "/", "users">>

ROOT_PATH == <<"/">>

API_URL == "https://app.emergencynetworking.com/department-api/users"

\* The three CORS headers written by handle_api_request and do_OPTIONS.
Hdr(k, v) == [k |-> k, code |-> 0, v |-> v]

CORSHeaders ==
  << Hdr("Access-Control-Allow-Origin", <<"*">>),
     Hdr("Access-Control-Allow-Methods", <<"GET, POST, OPTIONS">>),
     Hdr("Access-Control-Allow-Headers", <<"Content-Type, Authorization">>) >>

----------------------------------------------------------------------------
(* Response lines as BaseHTTPRequestHandler buffers them *)

StatusLine(code, text) == [k |-> ":status", code |-> code, v |-> text]

BlankLine == [k |-> "", code |-> 0, v |-> <<>>]

\* BaseHTTPRequestHandler.responses[code][0], for the codes the handlers pass
\* without a message of their own.
ShortMsg(code) ==
  CASE code = 200 -> <<"OK">>
    [] code = 301 -> <<"Moved Permanently">>
    [] code = 302 -> <<"Found">>
    [] code = 304 -> <<"Not Modified">>
    [] OTHER -> <<"???">>

\* send_response(code, message): status line, then the Server and Date headers.
send_response(buf, code, text) ==
  buf \o << StatusLine(code, text),
            Hdr("Server", <<"SimpleHTTP/0.6 Python">>),
            Hdr("Date", <<"now">>) >>

send_header(buf, k, v) == Append(buf, Hdr(k, v))

\* end_headers() up to the flush: the blank line joins the buffer.
end_headers(buf) == Append(buf, BlankLine)

\* The HTML page send_error builds from error_message_format.
ErrorBody(code, text) ==
  <<"<p>Error code: ">> \o Dec(code) \o <<"</p><p>Message: ">> \o HtmlEscape(text) \o <<".</p>">>

\* send_error(code, message) up to the flush: the buffered header block and the
\* body that is written after it (<<>> when no body is written).
send_error(buf, command, code, text) ==
  LET b1 == send_header(send_response(buf, code, text), "Connection", <<"close">>)
      hasBody == code >= 200 /\ code \notin {204, 205, 304}
      body == ErrorBody(code, text)
      b2 == IF hasBody
            THEN send_header(send_header(b1, "Content-Type", <<"text/html;charset=utf-8">>),
                             "Content-Length", Dec(Len(body)))
            ELSE b1
  IN [buf |-> end_headers(b2),
      body |-> IF hasBody /\ command # "HEAD" THEN <<body>> ELSE <<>>]

----------------------------------------------------------------------------
(* State *)

VARIABLES
  proc,         \* main(): "start", "checked", "serving", "exited"
  exitCode,     \* process exit status once proc = "exited", else -1
  htmlExists,   \* Path(HTML_FILE).exists() in the working directory
  bound,        \* the listening socket has been bound in this run
  token,        \* os.environ entry EMERGENCY_NETWORKING_TOKEN: [set, val]
  served,       \* connections accepted so far
  prev,         \* how the previous request ended ("none" before the first)
  pc,           \* position of the handler of the current connection
  req,          \* the parsed request: [method, path, ims]
  called,       \* handler methods entered for the current request
  hdrBuf,       \* self._headers_buffer
  wfile,        \* calls of self.wfile.write so far: [ok, head, body]
  conn,         \* the caller's connection: "open" or "broken"
  pendingBody,  \* body the current block writes after its headers
  inTry,        \* executing inside the try body of handle_api_request
  exc,          \* exception being handled: [kind, code, text]
  up            \* the upstream call: [count, auth, answered, visited, url, last, data]

procVars == <<proc, exitCode, htmlExists, bound, token>>

connVars == <<req, called, hdrBuf, wfile, conn, pendingBody, inTry, exc, up>>

vars == <<proc, exitCode, htmlExists, bound, token, served, prev, pc, req, called,
          hdrBuf, wfile, conn, pendingBody, inTry, exc, up>>

\* Values of the token variable in the environment: unset, empty, a well-formed
\* secret, and a secret carrying a trailing newline.
Tokens ==
  { [set |-> FALSE, val |-> <<>>],
    [set |-> TRUE,  val |-> <<>>],
    [set |-> TRUE,  val |-> <<"s", "k">>],
    [set |-> TRUE,  val |-> <<"s", "k", "\n">>] }

\* Truthy with the empty string taken for a token (a test against None only).
Truthy_SetOnly(t) == t.set

\* Python truth value of os.environ.get(...): None and "" are false.
Truthy(t) == t.set /\ t.val # <<>>

Methods == {"GET", "OPTIONS", "HEAD", "POST"}

Paths ==
  { API_PATH, ROOT_PATH, <<>>,
    API_PATH \o <<"?", "x=1">>, API_PATH \o <<"/">>, API_PATH \o <<"/", "extra">>,
    <<"/", "?", "x=1">>, <<"/", ".">>,
    <<"/">> \o HTML_FILE, <<"/">> \o HTML_FILE \o <<"?", "x=1">>, <<"/">> \o HTML_FILE \o <<"/">>,
    <<"/", "static">>, <<"/", "static", "/">>, <<"/", "nope">> }

NoReq == [method |-> "", path |-> <<>>, ims |-> FALSE]

NoExc == [kind |-> "none", code |-> 0, text |-> <<>>]

NoOutcome == [kind |-> "none", code |-> 0, loc |-> "", reason |-> <<>>, body |-> <<>>]

Urls == {API_URL, "https://elsewhere.example/users"}

NoUp ==
  [count |-> 0, auth |-> {}, answered |-> {}, visited |-> [u \in Urls |-> 0],
   url |-> API_URL, last |-> NoOutcome, data |-> <<>>, readFailed |-> FALSE]

Init ==
  /\ proc = "start"
  /\ exitCode = -1
  /\ htmlExists \in BOOLEAN
  /\ bound = FALSE
  /\ token \in Tokens
  /\ served = 0
  /\ prev = "none"
  /\ pc = "idle"
  /\ req = NoReq
  /\ called = {}
  /\ hdrBuf = <<>>
  /\ wfile = <<>>
  /\ conn = "open"
  /\ pendingBody = <<>>
  /\ inTry = FALSE
  /\ exc = NoExc
  /\ up = NoUp

----------------------------------------------------------------------------
(* main() *)

\* HtmlFilePresent with the check skipped.
HtmlFilePresent_Skipped(exists) == TRUE

\* Line 95: the start-up check of the HTML file.
HtmlFilePresent(exists) == exists

\* Lines 94-98: leave with status 1 when the HTML file is missing.
main_check_html ==
  /\ proc = "start"
  /\ IF ~HtmlFilePresent(htmlExists)
     THEN proc' = "exited" /\ exitCode' = 1
     ELSE proc' = "checked" /\ exitCode' = exitCode
  /\ UNCHANGED <<htmlExists, bound, token, served, prev, pc>>
  /\ UNCHANGED connVars

\* Lines 118-125: TCPServer(...) binds and serve_forever starts, or the
\* constructor raises and the process leaves with status 1.
main_start_server ==
  /\ proc = "checked"
  /\ \/ proc' = "serving" /\ bound' = TRUE /\ exitCode' = exitCode
     \/ proc' = "exited" /\ bound' = FALSE /\ exitCode' = 1
  /\ UNCHANGED <<htmlExists, token, served, prev, pc>>
  /\ UNCHANGED connVars

\* Lines 121-122: Ctrl+C between two requests stops the server; main returns.
KeyboardInterrupt ==
  /\ proc = "serving"
  /\ pc = "idle"
  /\ proc' = "exited"
  /\ exitCode' = 0
  /\ UNCHANGED <<htmlExists, bound, token, served, prev, pc>>
  /\ UNCHANGED connVars

----------------------------------------------------------------------------
(* One connection: accept, dispatch, write, finish *)

\* serve_forever accepts a connection and the library parses its request line.
Accept ==
  /\ proc = "serving"
  /\ pc = "idle"
  /\ served < MaxRequests
  /\ \E m \in Methods, p \in Paths, i \in BOOLEAN :
       req' = [method |-> m, path |-> p, ims |-> i]
  /\ served' = served + 1
  /\ pc' = "dispatch"
  /\ called' = {}
  /\ hdrBuf' = <<>>
  /\ wfile' = <<>>
  /\ conn' = "open"
  /\ pendingBody' = <<>>
  /\ inTry' = FALSE
  /\ exc' = NoExc
  /\ up' = NoUp
  /\ UNCHANGED <<prev>>
  /\ UNCHANGED procVars

\* str(e) of the OSError a write to a closed connection raises.
BrokenPipeText == <<"[Errno 32] Broken pipe">>

\* One call of self.wfile.write(chunk). The socket takes it, or the connection
\* breaks (and stays broken) and the call raises: into the except Exception
\* clause when raised inside the try body, out of the handler otherwise.
Write(head, body, next) ==
  \/ /\ conn = "open"
     /\ wfile' = Append(wfile, [ok |-> TRUE, head |-> head, body |-> body])
     /\ pc' = next
     /\ UNCHANGED <<conn, inTry, exc>>
  \/ /\ wfile' = Append(wfile, [ok |-> FALSE, head |-> head, body |-> body])
     /\ conn' = "broken"
     /\ IF inTry
        THEN /\ pc' = "except_Exception"
             /\ exc' = [kind |-> "OSError", code |-> 0, text |-> BrokenPipeText]
             /\ inTry' = FALSE
        ELSE /\ pc' = "raised"
             /\ UNCHANGED <<inTry, exc>>

\* flush_headers(): write the joined buffer; the buffer is emptied only after
\* the write returned.
flush_headers ==
  /\ pc = "flush"
  /\ Write(hdrBuf, <<>>, IF pendingBody # <<>> THEN "body" ELSE "returned")
  /\ hdrBuf' = IF wfile'[Len(wfile')].ok THEN <<>> ELSE hdrBuf
  /\ UNCHANGED <<req, called, pendingBody, up, served, prev>>
  /\ UNCHANGED procVars

\* self.wfile.write(data) / copyfile(f, self.wfile) / the error page.
write_body ==
  /\ pc = "body"
  /\ Write(<<>>, Head(pendingBody), "returned")
  /\ pendingBody' = <<>>
  /\ UNCHANGED <<req, called, hdrBuf, up, served, prev>>
  /\ UNCHANGED procVars

----------------------------------------------------------------------------
(* The working directory, and the inherited static-file handler *)

Dirs == {<<>>, <<"static">>}

Files == (IF htmlExists THEN {HTML_FILE} ELSE {}) \cup {<<"app.py">>}

FileData(words) == <<"contents of ">> \o words

RECURSIVE UpTo(_, _)
\* The part of t before the first atom of stop: path.split('?',1)[0] and
\* .split('#',1)[0], urlsplit(path).path.
UpTo(t, stop) ==
  IF t = <<>> \/ Head(t) \in stop THEN <<>> ELSE <<Head(t)>> \o UpTo(Tail(t), stop)

UrlPath(path) == UpTo(path, {"?", "#"})

EndsWithSlash(t) == t # <<>> /\ t[Len(t)] = "/"

IsWord(a) == a \notin {"/", "."}

\* translate_path: query and fragment dropped, "." and empty segments
\* dropped, the words joined under the working directory, the trailing slash
\* kept.
translate_path(path) ==
  [words |-> SelectSeq(UrlPath(path), IsWord), slash |-> EndsWithSlash(UrlPath(path))]

guess_type(words) ==
  CASE words # <<>> /\ words[Len(words)] = HTML_FILE[1] -> <<"text/html">>
    [] words # <<>> /\ words[Len(words)] = "app.py" -> <<"text/x-python">>
    [] OTHER -> <<"application/octet-stream">>

\* list_directory: a 200 page naming the entries of the directory.
list_directory(buf, words) ==
  LET names == {f \in Files \cup Dirs : f # <<>> /\ SubSeq(f, 1, Len(f) - 1) = words}
      page == <<"Directory listing">>
              \o (IF HTML_FILE \in names THEN HTML_FILE ELSE <<>>)
              \o (IF <<"app.py">> \in names THEN <<"app.py">> ELSE <<>>)
              \o (IF <<"static">> \in names THEN <<"static/">> ELSE <<>>)
      b1 == send_header(send_response(buf, 200, ShortMsg(200)),
                        "Content-type", <<"text/html; charset=utf-8">>)
  IN [buf |-> end_headers(send_header(b1, "Content-Length", Dec(Len(page)))),
      body |-> <<page>>]

\* The file branch of send_head: 404 for a trailing slash or a name open()
\* rejects, 304 when If-Modified-Since is not older than the file, else 200.
send_file(buf, command, t, ims) ==
  IF t.slash \/ t.words \notin Files
  THEN send_error(buf, command, 404, <<"File not found">>)
  ELSE IF ims
  THEN [buf |-> end_headers(send_response(buf, 304, ShortMsg(304))), body |-> <<>>]
  ELSE LET b1 == send_header(send_response(buf, 200, ShortMsg(200)),
                             "Content-type", guess_type(t.words))
           b2 == send_header(b1, "Content-Length", Dec(Len(FileData(t.words))))
       IN [buf |-> end_headers(send_header(b2, "Last-Modified", <<"mtime">>)),
           body |-> IF command = "HEAD" THEN <<>> ELSE <<FileData(t.words)>>]

\* SimpleHTTPRequestHandler.send_head followed by the copy of do_GET (none for
\* do_HEAD): the buffered header block and the body written after it.
send_head(buf, command, path, ims) ==
  LET t == translate_path(path)
      index == t.words \o <<"index.html">>
  IN IF t.words \in Dirs
     THEN IF ~EndsWithSlash(UrlPath(path))
          THEN LET b1 == send_response(buf, 301, ShortMsg(301))
                   new_url == UrlPath(path) \o <<"/">>
                              \o SubSeq(path, Len(UrlPath(path)) + 1, Len(path))
               IN [buf |-> end_headers(send_header(send_header(b1, "Location", new_url),
                                                   "Content-Length", <<"0">>)),
                   body |-> <<>>]
          ELSE IF index \in Files
          THEN send_file(buf, command, [words |-> index, slash |-> FALSE], ims)
          ELSE LET r == list_directory(buf, t.words)
               IN [buf |-> r.buf, body |-> IF command = "HEAD" THEN <<>> ELSE r.body]
     ELSE send_file(buf, command, t, ims)

----------------------------------------------------------------------------
(* APIProxyHandler *)

\* Route matching /api/users as a prefix of the path instead of the whole path.
Route_Prefix(path) ==
  IF IsPrefix(API_PATH, path) THEN "api"
  ELSE IF path = ROOT_PATH \/ path = <<>> THEN "root"
  ELSE "static"

\* Lines 22-31: which branch of do_GET a path takes.
Route(path) ==
  IF path = API_PATH THEN "api"
  ELSE IF path = ROOT_PATH \/ path = <<>> THEN "root"
  ELSE "static"

\* RootRedirect with the leading slash of the Location left out.
RootRedirect_Relative(buf) ==
  end_headers(send_header(send_response(buf, 302, ShortMsg(302)), "Location", HTML_FILE))

\* Lines 26-28: the redirect of the root to the HTML file.
RootRedirect(buf) ==
  end_headers(send_header(send_response(buf, 302, ShortMsg(302)),
                          "Location", <<"/">> \o HTML_FILE))

\* Lines 21-31.
do_GET ==
  /\ pc = "dispatch"
  /\ req.method = "GET"
  /\ CASE Route(req.path) = "api" ->
            /\ called' = called \cup {"do_GET"}
            /\ pc' = "handle_api_request"
            /\ UNCHANGED <<hdrBuf, pendingBody>>
       [] Route(req.path) = "root" ->
            /\ called' = called \cup {"do_GET"}
            /\ hdrBuf' = RootRedirect(hdrBuf)
            /\ pendingBody' = <<>>
            /\ pc' = "flush"
       [] OTHER ->
            LET r == send_head(hdrBuf, req.method, req.path, req.ims)
            IN /\ called' = called \cup {"do_GET", "SimpleHTTPRequestHandler.do_GET"}
               /\ hdrBuf' = r.buf
               /\ pendingBody' = r.body
               /\ pc' = "flush"
  /\ UNCHANGED <<req, wfile, conn, inTry, exc, up, served, prev>>
  /\ UNCHANGED procVars

\* do_HEAD as inherited from SimpleHTTPRequestHandler (the class does not
\* override it): send_head for whatever the path is.
do_HEAD ==
  /\ pc = "dispatch"
  /\ req.method = "HEAD"
  /\ LET r == send_head(hdrBuf, req.method, req.path, req.ims)
     IN /\ called' = called \cup {"SimpleHTTPRequestHandler.do_HEAD"}
        /\ hdrBuf' = r.buf
        /\ pendingBody' = r.body
        /\ pc' = "flush"
  /\ UNCHANGED <<req, wfile, conn, inTry, exc, up, served, prev>>
  /\ UNCHANGED procVars

\* A method the class has no do_ method for: handle_one_request answers 501.
unsupported_method ==
  /\ pc = "dispatch"
  /\ req.method \notin {"GET", "HEAD", "OPTIONS"}
  /\ LET r == send_error(hdrBuf, req.method, 501,
                         <<"Unsupported method (">> \o <<"'", req.method, "'">> \o <<")">>)
     IN /\ hdrBuf' = r.buf
        /\ pendingBody' = r.body
        /\ pc' = "flush"
  /\ UNCHANGED <<req, called, wfile, conn, inTry, exc, up, served, prev>>
  /\ UNCHANGED procVars

\* PreflightResponse without the Access-Control-Allow-Headers header.
PreflightResponse_NoAllowHeaders(buf) ==
  end_headers(send_response(buf, 200, ShortMsg(200)) \o SubSeq(CORSHeaders, 1, 2))

\* Lines 79-83: the header block of the preflight answer.
PreflightResponse(buf) ==
  end_headers(send_response(buf, 200, ShortMsg(200)) \o CORSHeaders)

\* Lines 77-83.
do_OPTIONS ==
  /\ pc = "dispatch"
  /\ req.method = "OPTIONS"
  /\ called' = called \cup {"do_OPTIONS"}
  /\ hdrBuf' = PreflightResponse(hdrBuf)
  /\ pendingBody' = <<>>
  /\ pc' = "flush"
  /\ UNCHANGED <<req, wfile, conn, inTry, exc, up, served, prev>>
  /\ UNCHANGED procVars

----------------------------------------------------------------------------
(* handle_api_request and the urlopen call it makes *)

\* Line 48: the Authorization header of the upstream request.
AuthHeader(t) == <<"Bearer ">> \o t.val

\* http.client's check of a header value in putheader: a line feed not
\* followed by a space or tab, or a carriage return not followed by space,
\* tab or line feed.
IsIllegalHeaderValue(v) ==
  \E i \in 1..Len(v) :
    \/ v[i] = "\n" /\ (i = Len(v) \/ v[i + 1] \notin {" ", "\t"})
    \/ v[i] = "\r" /\ (i = Len(v) \/ v[i + 1] \notin {" ", "\t", "\n"})

\* HTTPRedirectHandler: the codes it follows for a GET, and its loop limits.
RedirectCodes == {301, 302, 303, 307, 308}

max_repeats == 4

max_redirections == 10

inf_msg == <<"The HTTP server returned a redirect error that would lead to an infinite loop.\n",
             "The last 30x error message was:\n">>

\* What the upstream (or the network on the way to it) can do with one request.
UpstreamCodes == {200, 204, 302, 304, 404, 503}

Reasons == {<<"Not Found">>, <<"Busy">>}

Bodies == {<<>>, <<"[", "]">>}

Answers ==
  [kind : {"answer"}, code : UpstreamCodes, loc : {""} \cup Urls, reason : Reasons, body : Bodies]

\* A failed exchange, with the description the exception carries. The
\* descriptions are Latin-1 text, which is what send_error can put on a status
\* line.
Failures ==
  { [kind |-> "URLError", code |-> 0, loc |-> "", body |-> <<>>,
     reason |-> <<"[Errno 111] Connection refused">>],
    [kind |-> "BadStatusLine", code |-> 0, loc |-> "", body |-> <<>>,
     reason |-> <<"Remote end closed connection without response">>] }

\* str(e) of the exception urlopen raises for a failed exchange.
FailureText(o) ==
  IF o.kind = "URLError" THEN <<"<", "urlopen error ">> \o o.reason \o <<">">> ELSE o.reason

\* str(e) of the exception response.read() raises on a truncated body.
IncompleteReadText == <<"IncompleteRead(0 bytes read)">>

\* Lines 38-39: the reply when the token is missing.
MissingTokenReply == [code |-> 500, text |-> <<"API token not configured">>]

\* Lines 33-52: the token is read and checked, the request object is built.
handle_api_request ==
  /\ pc = "handle_api_request"
  /\ called' = called \cup {"handle_api_request"}
  /\ inTry' = TRUE
  /\ IF ~Truthy(token)
     THEN LET r == send_error(hdrBuf, req.method, MissingTokenReply.code, MissingTokenReply.text)
          IN /\ hdrBuf' = r.buf
             /\ pendingBody' = r.body
             /\ pc' = "flush"
     ELSE /\ pc' = "urlopen"
          /\ UNCHANGED <<hdrBuf, pendingBody>>
  /\ UNCHANGED <<req, wfile, conn, exc, up, served, prev>>
  /\ UNCHANGED procVars

\* Line 54, one exchange of urlopen: the headers are validated, the request
\* goes out with the Authorization header, and the answer is returned (2xx),
\* followed (a redirect with a Location, within the loop limits) or raised as
\* HTTPError; a failed exchange raises URLError or an http.client exception.
urlopen ==
  /\ pc = "urlopen"
  /\ IF IsIllegalHeaderValue(AuthHeader(token))
     THEN /\ exc' = [kind |-> "ValueError", code |-> 0,
                     text |-> <<"Invalid header value ">> \o ReprBytes(AuthHeader(token))]
          /\ pc' = "except_Exception"
          /\ inTry' = FALSE
          /\ UNCHANGED up
     ELSE \E o \in Answers \cup Failures :
            LET sent == [up EXCEPT !.count = @ + 1,
                                   !.auth = @ \cup {AuthHeader(token)},
                                   !.last = o]
            IN IF o.kind # "answer"
               THEN /\ up' = sent
                    /\ exc' = [kind |-> o.kind, code |-> 0, text |-> FailureText(o)]
                    /\ pc' = "except_Exception"
                    /\ inTry' = FALSE
               ELSE IF o.code >= 200 /\ o.code < 300
               THEN /\ up' = [sent EXCEPT !.answered = @ \cup {o.code}]
                    /\ pc' = "read"
                    /\ UNCHANGED <<exc, inTry>>
               ELSE IF /\ o.code \in RedirectCodes
                       /\ o.loc # ""
                       /\ up.visited[o.loc] < max_repeats
                       /\ Cardinality({u \in Urls : up.visited[u] > 0}) < max_redirections
               THEN /\ up' = [sent EXCEPT !.answered = @ \cup {o.code},
                                          !.visited[o.loc] = @ + 1,
                                          !.url = o.loc]
                    /\ pc' = "urlopen"
                    /\ UNCHANGED <<exc, inTry>>
               ELSE /\ up' = [sent EXCEPT !.answered = @ \cup {o.code}]
                    /\ exc' = [kind |-> "HTTPError", code |-> o.code,
                               text |-> IF o.code \in RedirectCodes /\ o.loc # ""
                                        THEN inf_msg \o o.reason ELSE o.reason]
                    /\ pc' = "except_HTTPError"
                    /\ inTry' = FALSE
  /\ UNCHANGED <<req, called, hdrBuf, wfile, conn, pendingBody, served, prev>>
  /\ UNCHANGED procVars

\* SuccessResponse without the Access-Control-Allow-Origin header.
SuccessResponse_NoOrigin(buf, data) ==
  [buf |-> end_headers(send_header(send_response(buf, 200, ShortMsg(200)),
                                   "Content-Type", <<"application/json">>)
                       \o Tail(CORSHeaders)),
   body |-> <<data>>]

\* Lines 60-66: the success response for the bytes read from the upstream.
SuccessResponse(buf, data) ==
  [buf |-> end_headers(send_header(send_response(buf, 200, ShortMsg(200)),
                                   "Content-Type", <<"application/json">>)
                       \o CORSHeaders),
   body |-> <<data>>]

\* Lines 55-64: response.read() returns the whole body and the success
\* response is buffered, or the read raises.
response_read ==
  /\ pc = "read"
  /\ \/ LET r == SuccessResponse(hdrBuf, up.last.body)
        IN /\ up' = [up EXCEPT !.data = up.last.body]
           /\ hdrBuf' = r.buf
           /\ pendingBody' = r.body
           /\ pc' = "flush"
           /\ UNCHANGED <<exc, inTry>>
     \/ /\ up' = [up EXCEPT !.readFailed = TRUE]
        /\ exc' = [kind |-> "IncompleteRead", code |-> 0, text |-> IncompleteReadText]
        /\ pc' = "except_Exception"
        /\ inTry' = FALSE
        /\ UNCHANGED <<hdrBuf, pendingBody>>
  /\ UNCHANGED <<req, called, wfile, conn, served, prev>>
  /\ UNCHANGED procVars

\* HTTPErrorReply answering 500 whatever the upstream status was.
HTTPErrorReply_Always500(e) ==
  [code |-> 500, text |-> <<"API Error: ">> \o Dec(e.code) \o <<" - ">> \o e.text]

\* Lines 69-71: status and message relayed for an HTTPError.
HTTPErrorReply(e) ==
  [code |-> e.code, text |-> <<"API Error: ">> \o Dec(e.code) \o <<" - ">> \o e.text]

\* Lines 68-71.
except_HTTPError ==
  /\ pc = "except_HTTPError"
  /\ LET r == send_error(hdrBuf, req.method, HTTPErrorReply(exc).code, HTTPErrorReply(exc).text)
     IN /\ hdrBuf' = r.buf
        /\ pendingBody' = r.body
        /\ pc' = "flush"
  /\ UNCHANGED <<req, called, wfile, conn, inTry, exc, up, served, prev>>
  /\ UNCHANGED procVars

\* ExceptionReply without the description of the exception.
ExceptionReply_NoDetail(e) ==
  [code |-> 500, text |-> <<"Proxy Error">>]

\* Lines 73-75: status and message for any other exception.
ExceptionReply(e) ==
  [code |-> 500, text |-> <<"Proxy Error: ">> \o e.text]

\* Lines 72-75.
except_Exception ==
  /\ pc = "except_Exception"
  /\ LET r == send_error(hdrBuf, req.method, ExceptionReply(exc).code, ExceptionReply(exc).text)
     IN /\ hdrBuf' = r.buf
        /\ pendingBody' = r.body
        /\ pc' = "flush"
  /\ UNCHANGED <<req, called, wfile, conn, inTry, exc, up, served, prev>>
  /\ UNCHANGED procVars

\* The handler is over: it returned, or its exception reached
\* socketserver's handle_error; the connection is closed and the accept loop
\* goes on.
Finish ==
  /\ pc \in {"returned", "raised"}
  /\ pc' = "idle"
  /\ prev' = IF up.last.kind \in {"URLError", "BadStatusLine"} \/ up.readFailed
             THEN "upstream_failure" ELSE "other"
  /\ req' = NoReq
  /\ called' = {}
  /\ hdrBuf' = <<>>
  /\ wfile' = <<>>
  /\ conn' = "open"
  /\ pendingBody' = <<>>
  /\ inTry' = FALSE
  /\ exc' = NoExc
  /\ up' = NoUp
  /\ UNCHANGED <<served>>
  /\ UNCHANGED procVars

Next ==
  \/ main_check_html
  \/ main_start_server
  \/ KeyboardInterrupt
  \/ Accept
  \/ do_GET
  \/ do_HEAD
  \/ unsupported_method
  \/ do_OPTIONS
  \/ handle_api_request
  \/ urlopen
  \/ response_read
  \/ except_HTTPError
  \/ except_Exception
  \/ flush_headers
  \/ write_body
  \/ Finish

Spec == Init /\ [][Next]_vars

----------------------------------------------------------------------------
(* Observations on a request *)

Done == pc \in {"returned", "raised"}

IsApiGet == pc # "idle" /\ req.method = "GET" /\ req.path = API_PATH

\* The write calls the caller's socket took.
IsOk(w) == w.ok

Sent == SelectSeq(wfile, IsOk)

IsStatus(l) == l.k = ":status"

RECURSIVE StatusLines(_)
\* The status lines among the header lines of a sequence of write calls.
StatusLines(ws) ==
  IF ws = <<>> THEN <<>> ELSE SelectSeq(Head(ws).head, IsStatus) \o StatusLines(Tail(ws))

Range(f) == {f[i] : i \in DOMAIN f}

CodesOf(ws) == {l.code : l \in Range(StatusLines(ws))}

RECURSIVE Flat(_)
Flat(ls) == IF ls = <<>> THEN <<>> ELSE Head(ls).v \o Flat(Tail(ls))

\* Every atom of one write call: its header values and its body.
TextOf(w) == Flat(w.head) \o w.body

\* The upstream call failed otherwise than by an HTTP error status.
UpstreamFailed == up.last.kind \in {"URLError", "BadStatusLine"} \/ up.readFailed

----------------------------------------------------------------------------
(* Claims *)

\* C1: while GET /api/users is handled with the token unset or empty, no
\* upstream request is issued at any point, every status line written is 500,
\* and a handler that returns has sent exactly one response, with status 500.
C1_TokenAbsent ==
  (IsApiGet /\ ~(token.set /\ token.val # <<>>)) =>
     /\ up.count = 0
     /\ up.auth = {}
     /\ CodesOf(wfile) \subseteq {500}
     /\ Done => CodesOf(wfile) = {500}
     /\ pc = "returned" => Len(StatusLines(Sent)) = 1

C1_Witness ==
  /\ IsApiGet
  /\ pc = "returned"
  /\ token.set /\ token.val = <<>>
  /\ CodesOf(Sent) = {500}

\* C2: GET /api/users with the token present, the upstream's final answer
\* being 200 with body B, read in full: what the caller's socket took is an
\* initial part of (header block with status 200 and the three CORS headers,
\* then exactly B), and all of it when the handler returns.
C2_SuccessRelayed ==
  (IsApiGet /\ Done /\ up.last.kind = "answer" /\ up.last.code = 200 /\ ~up.readFailed) =>
     /\ Len(Sent) <= 2
     /\ pc = "returned" => Len(Sent) = 2
     /\ Len(Sent) >= 1 =>
          /\ Sent[1].body = <<>>
          /\ Len(StatusLines(<<Sent[1]>>)) = 1
          /\ Sent[1].head[1] = [k |-> ":status", code |-> 200, v |-> <<"OK">>]
          /\ [k |-> "Access-Control-Allow-Origin", code |-> 0, v |-> <<"*">>]
               \in Range(Sent[1].head)
          /\ [k |-> "Access-Control-Allow-Methods", code |-> 0, v |-> <<"GET, POST, OPTIONS">>]
               \in Range(Sent[1].head)
          /\ [k |-> "Access-Control-Allow-Headers", code |-> 0,
              v |-> <<"Content-Type, Authorization">>] \in Range(Sent[1].head)
     /\ Len(Sent) = 2 => Sent[2].head = <<>> /\ Sent[2].body = up.last.body

C2_Witness ==
  /\ IsApiGet
  /\ pc = "returned"
  /\ up.last.kind = "answer" /\ up.last.code = 200 /\ up.last.body = <<"[", "]">>
  /\ Len(Sent) = 2

\* C3 as stated: whenever the upstream answered some status S outside 2xx
\* while GET /api/users was handled (and nothing else failed), the response
\* sent to the caller carries status S.
C3_AsClaimed ==
  (IsApiGet /\ pc = "returned" /\ ~UpstreamFailed) =>
     \A S \in up.answered : (S < 200 \/ S >= 300) => CodesOf(Sent) = {S}

\* C3 amended: when the upstream call ends with an answer of status S outside
\* 2xx (the answer urlopen raises as HTTPError: not a redirect it followed),
\* every status line written carries S and a message that starts with
\* "API Error: S - " and contains the upstream reason text.
C3_FinalStatusRelayed ==
  (IsApiGet /\ Done /\ up.last.kind = "answer" /\ (up.last.code < 200 \/ up.last.code >= 300)) =>
     /\ CodesOf(wfile) = {up.last.code}
     /\ \A l \in Range(StatusLines(wfile)) :
          /\ IsPrefix(<<"API Error: ">> \o Dec(up.last.code) \o <<" - ">>, l.v)
          /\ Contains(l.v, up.last.reason)
     /\ pc = "returned" => Len(StatusLines(Sent)) = 1

C3_Witness ==
  /\ IsApiGet
  /\ pc = "returned"
  /\ up.last.kind = "answer" /\ up.last.code = 503
  /\ 302 \in up.answered
  /\ CodesOf(Sent) = {503}

\* C4: an OPTIONS request, whatever its path and whatever the token, is
\* answered by one header block (status 200 and the three CORS headers) and no
\* body, without any upstream request.
C4_Preflight ==
  (pc # "idle" /\ req.method = "OPTIONS") =>
     /\ up.count = 0
     /\ \A i \in DOMAIN wfile : wfile[i].body = <<>>
     /\ Done =>
          /\ Len(wfile) = 1
          /\ wfile[1].head =
               << [k |-> ":status", code |-> 200, v |-> <<"OK">>],
                  [k |-> "Server", code |-> 0, v |-> <<"SimpleHTTP/0.6 Python">>],
                  [k |-> "Date", code |-> 0, v |-> <<"now">>],
                  [k |-> "Access-Control-Allow-Origin", code |-> 0, v |-> <<"*">>],
                  [k |-> "Access-Control-Allow-Methods", code |-> 0, v |-> <<"GET, POST, OPTIONS">>],
                  [k |-> "Access-Control-Allow-Headers", code |-> 0,
                   v |-> <<"Content-Type, Authorization">>],
                  [k |-> "", code |-> 0, v |-> <<>>] >>
          /\ pc = "returned" => wfile[1].ok

C4_Witness ==
  /\ pc = "returned"
  /\ req.method = "OPTIONS"
  /\ req.path = API_PATH
  /\ token.set /\ token.val # <<>>
  /\ Len(Sent) = 1

\* C5: GET / and GET of the empty path are answered by a 302 whose Location is
\* /emergency-signin.html, with no body, and neither handle_api_request (the
\* upstream) nor the static-file handler is entered.
C5_RootRedirect ==
  (pc # "idle" /\ req.method = "GET" /\ req.path \in {<<"/">>, <<>>}) =>
     /\ up.count = 0
     /\ called \subseteq {"do_GET"}
     /\ Done =>
          /\ Len(wfile) = 1
          /\ wfile[1].body = <<>>
          /\ wfile[1].head[1] = [k |-> ":status", code |-> 302, v |-> <<"Found">>]
          /\ [k |-> "Location", code |-> 0, v |-> <<"/", "emergency-signin.html">>]
               \in Range(wfile[1].head)
          /\ pc = "returned" => wfile[1].ok

C5_Witness ==
  /\ pc = "returned"
  /\ req.method = "GET"
  /\ req.path = <<>>
  /\ CodesOf(Sent) = {302}

\* The path of a request, as the static handler resolves it.
StaticWords == translate_path(req.path).words

IsOtherGet ==
  pc \notin {"idle", "dispatch"} /\ req.method = "GET" /\ req.path \notin {API_PATH, <<"/">>, <<>>}

C7_TokenNeverExposed ==
  (token.set /\ token.val # <<>>) =>
     /\ \A i \in DOMAIN wfile :
          /\ ~Contains(TextOf(wfile[i]), token.val)
          /\ ~Contains(TextOf(wfile[i]), EscapeBytes(token.val))
     /\ up.auth \subseteq {<<"Bearer ">> \o token.val}

\* C8: when emergency-signin.html is missing at start-up the process never
\* binds the socket and never accepts a request, and once it has exited its
\* status is not zero.
C8_MissingHtmlExits ==
  ~htmlExists =>
     /\ ~bound
     /\ served = 0
     /\ pc = "idle"
     /\ proc \in {"start", "exited"}
     /\ proc = "exited" => exitCode > 0

C8_Witness ==
  /\ ~htmlExists
  /\ proc = "exited"
  /\ exitCode = 1

C10_NoErrorAfterSuccess ==
  IsApiGet =>
     \A i, j \in DOMAIN wfile :
        (i < j /\ wfile[i].ok /\ 200 \in CodesOf(<<wfile[i]>>)) => StatusLines(<<wfile[j]>>) = <<>>

====
